---- MODULE Spec2Model ----
(***************************************************************************)
(* PRISM post-processing (src/src/postprocess.py): zonal averaging of a    *)
(* raster over county polygons, the per-date join and checkpoint write,    *)
(* and the parallel orchestration of the date units by main().             *)
(***************************************************************************)
EXTENDS Integers, Sequences, FiniteSets, TLC

\* ------------------------------------------------------------------ bounds
\* Number of pixels of a model raster (one row, pixels 1..NPix).
NPix == 3
\* Largest pixel value of the rasters drawn in InitZonal.
MaxVal == 1
\* Largest number of regions of a boundary collection drawn in InitZonal.
MaxRegions == 2
\* Largest number of archives in the raw corpus drawn in Init.
MaxFiles == 3

VARIABLES
    raw,        \* the archives under Dirs.output / "prism_raw" (read-only input)
    bOk,        \* whether the boundary archive at SHAPEFILE_PATH can be read
    gdf,        \* the boundary collection read_shapefile_zip returns
    dropna,     \* whether DataFrame.stack() of the installed pandas drops NaN
    clean,      \* Dirs.clean: date token -> the state of prism_<date>.parquet
    clean0,     \* Dirs.clean as it was when main() was entered
    mainPc,     \* position of main(): "init", "collect", "raised", "done"
    mainErr,    \* the exception main() ended with ("none" when it returned)
    dates,      \* main: the distinct date tokens submitted to the executor
    collected,  \* main: the futures the loop has finished handling
    wpc,        \* per date unit: position inside process_prism_date
    fres,       \* per date unit: what the future holds once it is done
    todo,       \* per date unit: the entries of `files` not yet processed
    output,     \* per date unit: the list `output` of stacked Series
    zin,        \* inputs of a stand-alone zonal_average call
    zout        \* its result

vars == <<raw, bOk, gdf, dropna, clean, clean0, mainPc, mainErr, dates, collected,
          wpc, fres, todo, output, zin, zout>>

orchVars == <<raw, bOk, gdf, dropna, clean, clean0, mainPc, mainErr, dates, collected,
              wpc, fres, todo, output>>

\* ------------------------------------------------------------- sequences
RECURSIVE GCD(_, _)
GCD(a, b) == IF b = 0 THEN a ELSE GCD(b, a % b)

\* s ends with suf (the glob pattern "*<suf>" matches s).
EndsWith(s, suf) ==
    /\ Len(suf) <= Len(s)
    /\ SubSeq(s, Len(s) - Len(suf) + 1, Len(s)) = suf

\* s without its i-th element.
Without(s, i) == SubSeq(s, 1, i - 1) \o SubSeq(s, i + 1, Len(s))

\* ------------------------------------------------------- rasters, regions
Pixels == 1..NPix

\* profile.get("nodata") is None
None == -1

\* A raster value the aggregation could not compute (np.nan).
NaN == [num |-> 0, den |-> 0]

\* A mean as an exact fraction in lowest terms.
Frac(sum, n) == LET g == GCD(sum, n) IN [num |-> sum \div g, den |-> n \div g]

\* The crop window of a shape: the bounding run of the pixels it covers.
BBox(cover) ==
    IF cover = {} THEN {}
    ELSE LET lo == CHOOSE p \in cover : \A q \in cover : p <= q
             hi == CHOOSE p \in cover : \A q \in cover : q <= p
         IN  lo..hi

NullGeom  == [kind |-> "null",  window |-> {}, cover |-> {}]
EmptyGeom == [kind |-> "empty", window |-> {}, cover |-> {}]
\* A polygon: cover = the pixels whose centre lies inside it, window = the
\* pixels of its bounding extent inside the raster ({} when it lies outside).
Poly(cover) == [kind |-> "poly", window |-> BBox(cover), cover |-> cover]
OutsideGeom == Poly({})
\* A polygon that overlaps the raster but contains no pixel centre.
Sliver(p) == [kind |-> "poly", window |-> {p}, cover |-> {}]

Geoms == {NullGeom, EmptyGeom}
         \cup {Poly(c) : c \in SUBSET Pixels}
         \cup {Sliver(p) : p \in Pixels}

\* ---------------------------------------------------------- zonal_average
\* The value rasterio.mask.mask writes into the pixels of the crop window
\* that lie outside the shape (filled=True, nodata not passed): the raster's
\* declared nodata, or 0 when the raster declares none.
FillValue(raster) == IF raster.nodata # None THEN raster.nodata ELSE 0

\* rasterio.mask.mask(dataset, [geom], crop=True) raises ValueError when the
\* shape does not overlap the raster.
MaskRaises(geom) == geom.window = {}

\* out_image[0]: the crop window, pixels outside the shape set to the fill.
OutImage(raster, geom) ==
    [p \in geom.window |->
        IF p \in geom.cover THEN raster.data[p] ELSE FillValue(raster)]

\* The pixels of the window that survive `masked[masked != nodata]`.
Kept(raster, geom) ==
    {p \in geom.window :
        raster.nodata = None \/ OutImage(raster, geom)[p] # raster.nodata}

RECURSIVE SumOver(_, _)
SumOver(f, S) ==
    IF S = {} THEN 0
    ELSE LET p == CHOOSE q \in S : TRUE IN f[p] + SumOver(f, S \ {p})

\* masked.mean(), or np.nan when masked.size == 0.
MaskedMean(raster, geom) ==
    LET kept == Kept(raster, geom)
    IN  IF kept = {} THEN NaN
        ELSE Frac(SumOver(OutImage(raster, geom), kept), Cardinality(kept))

\* Mutant: a masking failure is not converted to np.nan but averaged over
\* the whole raster.
RegionResult_noCatch(raster, geom) ==
    IF geom.kind \in {"null", "empty"} THEN NaN
    ELSE IF MaskRaises(geom)
         THEN Frac(SumOver(raster.data, Pixels), NPix)
         ELSE MaskedMean(raster, geom)

\* One iteration of the loop over gdf.geometry: what is appended to results.
RegionResult(raster, geom) ==
    IF geom.kind \in {"null", "empty"} THEN NaN
    ELSE IF MaskRaises(geom) THEN NaN
         ELSE MaskedMean(raster, geom)

\* The list `results` after the loop over the geometries.
RECURSIVE ResultsLoop(_, _)
ResultsLoop(raster, regions) ==
    IF regions = <<>> THEN <<>>
    ELSE <<RegionResult(raster, Head(regions).geometry)>>
         \o ResultsLoop(raster, Tail(regions))

\* gdf_out: the collection with the added value column.
zonal_average(raster, regions) ==
    LET results == ResultsLoop(raster, regions)
    IN  [i \in 1..Len(regions) |->
            [FIPS |-> regions[i].FIPS, GEOID |-> regions[i].GEOID,
             geometry |-> regions[i].geometry, value |-> results[i]]]

\* A boundary collection with the given geometries; region codes are unique.
MkGdf(geoms) ==
    [i \in 1..Len(geoms) |-> [FIPS |-> i, GEOID |-> i, geometry |-> geoms[i]]]

\* ------------------------------------------- stand-alone zonal_average call
\* The declared no-data value: none, the lowest or the highest pixel value.
NoDatas == {None, 0, MaxVal}

Rasters == [data : [Pixels -> 0..MaxVal], nodata : NoDatas]

GeomSeqs == UNION {[1..n -> Geoms] : n \in 0..MaxRegions}

NoCall == [raster |-> [data |-> [p \in Pixels |-> 0], nodata |-> None],
           regions |-> <<>>]

NotCalled == [done |-> FALSE, gdf_out |-> <<>>]

Aggregate ==
    /\ ~zout.done
    /\ zout' = [done |-> TRUE,
                gdf_out |-> zonal_average(zin.raster, zin.regions)]
    /\ UNCHANGED <<zin, orchVars>>

\* ------------------------------------------------------------ file names
\* Names are sequences of name pieces; a date token is cut into pieces so
\* that one token can end with another, as "20201212" ends with "201212".
DA == <<"2012", "12">>           \* monthly token 201212
DL == <<"20", "2012", "12">>     \* daily token 20201212
DB == <<"20", "2012", "13">>     \* daily token 20201213
AllDates == {DA, DL, DB}

\* The stem of prism_<var>_us_25m_<date>.zip
RawStem(var, date) == <<"prism", "_", var, "_", "us", "_", "25m", "_">> \o date

\* The stem of the checkpoint f"prism_{date}.parquet"
CkptStem(date) == <<"prism", "_">> \o date

\* Path(f).stem.split("_")[-1]
DateOf(stem) ==
    LET us == {i \in 1..Len(stem) : stem[i] = "_"}
        last == IF us = {} THEN 0 ELSE CHOOSE i \in us : \A j \in us : j <= i
    IN  SubSeq(stem, last + 1, Len(stem))

\* re.compile(r"prism_(.*)_us").search(name): the (start, end) index pairs of
\* the candidate groups.
VarMatches(stem) ==
    {ij \in (1..Len(stem)) \X (1..Len(stem)) :
        /\ ij[1] + 2 <= ij[2]
        /\ ij[2] + 1 <= Len(stem)
        /\ stem[ij[1]] = "prism" /\ stem[ij[1] + 1] = "_"
        /\ stem[ij[2]] = "_" /\ stem[ij[2] + 1] = "us"}

\* m.group(1): leftmost match, greedy group.
VarOf(stem) ==
    LET ms == VarMatches(stem)
        i == CHOOSE a \in {m[1] : m \in ms} : \A m \in ms : a <= m[1]
        j == CHOOSE b \in {m[2] : m \in {x \in ms : x[1] = i}} :
                 \A m \in {x \in ms : x[1] = i} : m[2] <= b
    IN  SubSeq(stem, i + 2, j - 1)

\* ------------------------------------------------------------ raw corpus
UniformRaster == [data |-> [p \in Pixels |-> 1], nodata |-> None]
GappyRaster == [data |-> [p \in Pixels |-> IF p = 1 THEN 0 ELSE 2], nodata |-> 0]

Archive(stem, hasTif, raster) == [name |-> stem, hasTif |-> hasTif, raster |-> raster]

FilePool ==
    { Archive(RawStem("ppt", DA), TRUE, UniformRaster),
      Archive(RawStem("tmax", DA), TRUE, GappyRaster),
      Archive(RawStem("ppt", DB), FALSE, UniformRaster),
      Archive(RawStem("ppt", DL), TRUE, UniformRaster),
      Archive(RawStem("tmax", DL), FALSE, UniformRaster),
      Archive(<<"ppt", "_">> \o DB, TRUE, UniformRaster) }

Corpora == {c \in SUBSET FilePool : Cardinality(c) \in 1..MaxFiles}

GdfPool == { MkGdf(<<Poly({1}), Poly({1, NPix}), NullGeom>>),
             MkGdf(<<Poly({1})>>) }

\* ---------------------------------------------------- process_prism_file
\* s.stack(): one entry per region; the NaN entries are dropped by the legacy
\* implementation (dropna=True, the default before pandas 3) and kept by the
\* new one.
RECURSIVE Stack(_, _)
Stack(gdf_out, data_point) ==
    IF gdf_out = <<>> THEN <<>>
    ELSE (IF dropna /\ Head(gdf_out).value = NaN THEN <<>>
          ELSE << [key |-> <<Head(gdf_out).FIPS, Head(gdf_out).GEOID>>,
                   var |-> data_point, val |-> Head(gdf_out).value] >>)
         \o Stack(Tail(gdf_out), data_point)

\* read_prism_zip raises ValueError when the archive holds no .tif
read_prism_zip_raises(f) == ~f.hasTif

\* The exception process_prism_file raises on f, "none" when it returns.
FileError(f) ==
    IF VarMatches(f.name) = {} THEN "AttributeError"
    ELSE IF read_prism_zip_raises(f) THEN "ValueError"
    ELSE "none"

\* The stacked Series process_prism_file returns.
process_prism_file(f, shapefile) ==
    Stack(zonal_average(f.raster, shapefile), VarOf(f.name))

\* ---------------------------------------------------- process_prism_date
NoRec == [date |-> <<>>, cols |-> {}, rows |-> <<>>]
NoFile == [st |-> "none", rec |-> NoRec]

\* pd.concat(output)
RECURSIVE Concat(_)
Concat(out) == IF out = <<>> THEN <<>> ELSE Head(out) \o Concat(Tail(out))

\* unstack() raises ValueError on duplicate index entries.
HasDuplicates(s) ==
    \E i, j \in 1..Len(s) : i < j /\ s[i].key = s[j].key /\ s[i].var = s[j].var

\* Mutant: an inner join, which keeps only the regions that have a value for
\* every variable.
Unstack_inner(s, date) ==
    LET cols == {s[i].var : i \in 1..Len(s)}
        keys == {k \in {s[i].key : i \in 1..Len(s)} :
                    \A c \in cols : \E i \in 1..Len(s) : s[i].key = k /\ s[i].var = c}
    IN  [date |-> date, cols |-> cols,
         rows |-> [k \in keys |-> [c \in cols |->
                     s[CHOOSE i \in 1..Len(s) : s[i].key = k /\ s[i].var = c].val]]]

\* output.unstack().reset_index() with the date column attached.
Unstack(s, date) ==
    LET cols == {s[i].var : i \in 1..Len(s)}
        keys == {s[i].key : i \in 1..Len(s)}
    IN  [date |-> date, cols |-> cols,
         rows |-> [k \in keys |-> [c \in cols |->
                     IF \E i \in 1..Len(s) : s[i].key = k /\ s[i].var = c
                     THEN s[CHOOSE i \in 1..Len(s) : s[i].key = k /\ s[i].var = c].val
                     ELSE NaN]]]

\* Mutant: the existence probe looks in the wrong place and finds nothing.
parquet_match_none(date) == {}

\* Dirs.clean.rglob(f"*{date}.parquet")
parquet_match(date) ==
    {c \in AllDates : clean[c].st # "none" /\ EndsWith(CkptStem(c), date)}

\* raw_dir.rglob(f"*{date}.zip")
raw_match(date) == {f \in raw : EndsWith(f.name, date)}

Errors == {"DataSourceError", "AttributeError", "ValueError", "OSError"}

Finish(d, result) ==
    /\ wpc' = [wpc EXCEPT ![d] = "done"]
    /\ fres' = [fres EXCEPT ![d] = result]

\* Mutant: the unit goes on to its idempotency check although the boundary
\* archive could not be read.
LoadBoundary_ignoreFailure(d) ==
    /\ wpc[d] = "queued"
    /\ wpc' = [wpc EXCEPT ![d] = "check"]
    /\ UNCHANGED <<raw, bOk, gdf, dropna, clean0, clean, mainPc, mainErr, dates, collected,
                   fres, todo, output, zin, zout>>

\* gdf = read_shapefile_zip(sp_path)
LoadBoundary(d) ==
    /\ wpc[d] = "queued"
    /\ IF bOk
       THEN wpc' = [wpc EXCEPT ![d] = "check"] /\ UNCHANGED fres
       ELSE Finish(d, "DataSourceError")
    /\ UNCHANGED <<raw, bOk, gdf, dropna, clean0, clean, mainPc, mainErr, dates, collected,
                   todo, output, zin, zout>>

\* The idempotency check, then the enumeration of the date's archives.
CheckSkip(d) ==
    /\ wpc[d] = "check"
    /\ IF parquet_match(d) # {}
       THEN Finish(d, "skipped") /\ UNCHANGED todo
       ELSE /\ wpc' = [wpc EXCEPT ![d] = "files"]
            /\ todo' = [todo EXCEPT ![d] = raw_match(d)]
            /\ UNCHANGED fres
    /\ UNCHANGED <<raw, bOk, gdf, dropna, clean0, clean, mainPc, mainErr, dates, collected,
                   output, zin, zout>>

\* One iteration of `for f in files: output.append(process_prism_file(f, gdf))`
ProcessFile(d, f) ==
    /\ wpc[d] = "files"
    /\ f \in todo[d]
    /\ IF FileError(f) # "none"
       THEN Finish(d, FileError(f)) /\ UNCHANGED <<todo, output>>
       ELSE /\ todo' = [todo EXCEPT ![d] = @ \ {f}]
            /\ output' = [output EXCEPT ![d] = Append(@, process_prism_file(f, gdf))]
            /\ UNCHANGED <<wpc, fres>>
    /\ UNCHANGED <<raw, bOk, gdf, dropna, clean0, clean, mainPc, mainErr, dates, collected,
                   zin, zout>>

\* Mutant: the checkpoint is opened as soon as one file has been processed
\* (a streaming write), not after the whole loop.
JoinAndOpen_early(d) ==
    /\ wpc[d] = "files"
    /\ output[d] # <<>>
    /\ ~HasDuplicates(Concat(output[d]))
    /\ wpc' = [wpc EXCEPT ![d] = "write"]
    /\ clean' = [clean EXCEPT ![d] = [st |-> "partial", rec |-> NoRec]]
    /\ UNCHANGED <<raw, bOk, gdf, dropna, clean0, mainPc, mainErr, dates, collected,
                   fres, todo, output, zin, zout>>

\* pd.concat, unstack, the date column, and to_parquet creating the file.
JoinAndOpen(d) ==
    /\ wpc[d] = "files"
    /\ todo[d] = {}
    /\ IF output[d] = <<>> \/ HasDuplicates(Concat(output[d]))
       THEN Finish(d, "ValueError") /\ UNCHANGED clean
       ELSE /\ wpc' = [wpc EXCEPT ![d] = "write"]
            /\ clean' = [clean EXCEPT ![d] = [st |-> "partial", rec |-> NoRec]]
            /\ UNCHANGED fres
    /\ UNCHANGED <<raw, bOk, gdf, dropna, clean0, mainPc, mainErr, dates, collected,
                   todo, output, zin, zout>>

\* to_parquet finishes: the file holds the whole DateRecord.
WriteCommit(d) ==
    /\ wpc[d] = "write"
    /\ clean' = [clean EXCEPT ![d] =
                    [st |-> "complete", rec |-> Unstack(Concat(output[d]), d)]]
    /\ Finish(d, "record")
    /\ UNCHANGED <<raw, bOk, gdf, dropna, clean0, mainPc, mainErr, dates, collected,
                   todo, output, zin, zout>>

\* to_parquet raises part-way (disk full, I/O error): the file stays as it is.
WriteFault(d) ==
    /\ wpc[d] = "write"
    /\ Finish(d, "OSError")
    /\ UNCHANGED <<raw, bOk, gdf, dropna, clean0, clean, mainPc, mainErr, dates, collected,
                   todo, output, zin, zout>>

\* ------------------------------------------------------------------ main
filter_prism_files == raw

Idle == [d \in AllDates |-> "idle"]

\* dates = sorted(set(...)); futures = [executor.submit(...) for d in dates]
MainStart ==
    /\ mainPc = "init"
    /\ dates' = {DateOf(f.name) : f \in filter_prism_files}
    /\ wpc' = [d \in AllDates |->
                 IF d \in {DateOf(f.name) : f \in filter_prism_files}
                 THEN "queued" ELSE "idle"]
    /\ mainPc' = "collect"
    /\ UNCHANGED <<raw, bOk, gdf, dropna, clean0, clean, mainErr, collected, fres, todo,
                   output, zin, zout>>

\* One iteration of `for f in as_completed(futures)`: f.result() returns, or
\* raises and the handler evaluates futures[f] on the list `futures`.
Collect(d) ==
    /\ mainPc = "collect"
    /\ d \in dates \ collected
    /\ wpc[d] = "done"
    /\ IF fres[d] \in Errors
       THEN /\ mainPc' = "raised"
            /\ mainErr' = "TypeError"
            /\ UNCHANGED collected
       ELSE /\ collected' = collected \cup {d}
            /\ UNCHANGED <<mainPc, mainErr>>
    /\ UNCHANGED <<raw, bOk, gdf, dropna, clean0, clean, dates, wpc, fres, todo, output,
                   zin, zout>>

\* as_completed is exhausted; the executor's __exit__ has nothing to wait for.
LoopEnd ==
    /\ mainPc = "collect"
    /\ collected = dates
    /\ mainPc' = "done"
    /\ UNCHANGED <<raw, bOk, gdf, dropna, clean0, clean, mainErr, dates, collected, wpc,
                   fres, todo, output, zin, zout>>

\* The exception leaves the with block: executor.shutdown(wait=True) waits
\* for every submitted unit, then main() ends with the exception.
ExecutorExit ==
    /\ mainPc = "raised"
    /\ \A d \in dates : wpc[d] = "done"
    /\ mainPc' = "done"
    /\ UNCHANGED <<raw, bOk, gdf, dropna, clean0, clean, mainErr, dates, collected, wpc,
                   fres, todo, output, zin, zout>>

\* The script is run again over the same raw corpus and checkpoint directory.
Relaunch ==
    /\ mainPc = "done"
    /\ mainPc' = "init"
    /\ mainErr' = "none"
    /\ bOk' \in BOOLEAN
    /\ dates' = {}
    /\ collected' = {}
    /\ wpc' = Idle
    /\ fres' = [d \in AllDates |-> "none"]
    /\ todo' = [d \in AllDates |-> {}]
    /\ output' = [d \in AllDates |-> <<>>]
    /\ clean0' = clean
    /\ UNCHANGED <<raw, gdf, dropna, clean, zin, zout>>

\* ---------------------------------------------------------- specifications
Init ==
    /\ raw \in Corpora
    /\ bOk \in BOOLEAN
    /\ gdf \in GdfPool
    /\ dropna \in BOOLEAN
    /\ clean = [d \in AllDates |-> NoFile]
    /\ clean0 = [d \in AllDates |-> NoFile]
    /\ mainPc = "init"
    /\ mainErr = "none"
    /\ dates = {}
    /\ collected = {}
    /\ wpc = Idle
    /\ fres = [d \in AllDates |-> "none"]
    /\ todo = [d \in AllDates |-> {}]
    /\ output = [d \in AllDates |-> <<>>]
    /\ zin = NoCall
    /\ zout = NotCalled

Next ==
    \/ MainStart
    \/ \E d \in AllDates : LoadBoundary(d)
    \/ \E d \in AllDates : CheckSkip(d)
    \/ \E d \in AllDates : \E f \in raw : ProcessFile(d, f)
    \/ \E d \in AllDates : JoinAndOpen(d)
    \/ \E d \in AllDates : WriteCommit(d)
    \/ \E d \in AllDates : WriteFault(d)
    \/ \E d \in AllDates : Collect(d)
    \/ LoopEnd
    \/ ExecutorExit
    \/ Relaunch

Spec == Init /\ [][Next]_vars

InitZonal ==
    /\ zin \in [raster : Rasters, regions : {MkGdf(g) : g \in GeomSeqs}]
    /\ zout = NotCalled
    /\ raw = {}
    /\ bOk = TRUE
    /\ gdf = <<>>
    /\ dropna = TRUE
    /\ clean = [d \in AllDates |-> NoFile]
    /\ clean0 = [d \in AllDates |-> NoFile]
    /\ mainPc = "init"
    /\ mainErr = "none"
    /\ dates = {}
    /\ collected = {}
    /\ wpc = Idle
    /\ fres = [d \in AllDates |-> "none"]
    /\ todo = [d \in AllDates |-> {}]
    /\ output = [d \in AllDates |-> <<>>]

NextZonal == Aggregate

SpecZonal == InitZonal /\ [][NextZonal]_vars

\* ------------------------------------------------------------ the claims
Exists(d) == clean[d].st # "none"
Existed(d) == clean0[d].st # "none"
PerFileErrors == {"AttributeError", "ValueError"}

\* C1: the failure of one date does not end the collection loop before the
\* outcomes of the other dates are collected: when main() has ended, every
\* dispatched date whose unit returned has been handled by the loop.
C1_AllOutcomesCollected ==
    mainPc = "done" => \A d \in dates : fres[d] \notin Errors => d \in collected

\* The dates g (readable archives only) and b (archives without a raster)
\* are the two dates of a run that started with no checkpoint and met no
\* other fault.
TwoDatesOneCorrupted(g, b) ==
    /\ g # b
    /\ dates = {g, b}
    /\ \A c \in AllDates : ~Existed(c)
    /\ bOk
    /\ \A f \in raw : DateOf(f.name) = g => FileError(f) = "none"
    /\ \A f \in raw : DateOf(f.name) = b => read_prism_zip_raises(f)
    /\ \A f1, f2 \in raw :
          (DateOf(f1.name) = g /\ DateOf(f2.name) = g /\ f1 # f2)
              => VarOf(f1.name) # VarOf(f2.name)
    /\ \A d \in dates : fres[d] # "OSError"

\* C2: a run over two dates, one of them with a corrupted archive, ends with
\* the checkpoint of the other date written.
C2_OtherDateCheckpointed ==
    \A g, b \in AllDates :
        (mainPc = "done" /\ TwoDatesOneCorrupted(g, b)) => clean[g].st = "complete"

\* C3 as stated: a unit called for a date whose checkpoint exists (here even
\* a completely written one) ends as skipped.
C3_AlwaysSkipped ==
    \A d \in dates :
        (clean0[d].st = "complete" /\ wpc[d] = "done") => fres[d] = "skipped"

\* What a unit called with an existing checkpoint has done so far: no
\* enumeration of raw archives, no file processed, its checkpoint untouched,
\* and it ends as skipped when the boundary archive could be read.
C3_State ==
    \A d \in dates : Existed(d) =>
        /\ wpc[d] \in {"queued", "check", "done"}
        /\ todo[d] = {} /\ output[d] = <<>>
        /\ clean[d] = clean0[d]
        /\ (wpc[d] = "done" =>
                fres[d] = IF bOk THEN "skipped" ELSE "DataSourceError")

\* A step of such a unit leaves the whole checkpoint directory as it is.
C3_Step ==
    \A d \in AllDates : (Existed(d) /\ wpc[d] # "idle" /\ wpc'[d] # wpc[d])
                            => clean' = clean

\* C3 (amended): process_prism_date for a date whose checkpoint exists
\* enumerates no raw archive, reads no raster and leaves the checkpoint
\* directory unchanged, on every run; it returns skipped provided the
\* boundary archive can be read, and raises the boundary error otherwise.
C3_SkipWithoutWork == []C3_State /\ [][C3_Step]_vars

C3_Witness ==
    \E d \in dates : Existed(d) /\ wpc[d] = "done" /\ fres[d] = "skipped"

\* C4: no unit skips on a checkpoint file that is only partially written.
C4_NoSkipOnPartialFile ==
    \A d \in dates : fres[d] = "skipped" => clean[d].st # "partial"

\* A checkpoint touched in this run belongs to a unit that has finished its
\* whole file loop and the join; a unit that failed in a per-file step or in
\* the join has no checkpoint.
C5_State ==
    \A d \in AllDates :
        /\ clean[d] # clean0[d] =>
              /\ wpc[d] \in {"write", "done"}
              /\ fres[d] \in {"none", "record", "OSError"}
              /\ todo[d] = {}
              /\ Len(output[d]) = Cardinality(raw_match(d))
              /\ \A f \in raw_match(d) : FileError(f) = "none"
        /\ fres[d] \in PerFileErrors => ~Exists(d)

\* The failing step itself creates, alters or removes no checkpoint.
C5_Step ==
    \A d \in AllDates :
        (fres[d] = "none" /\ fres'[d] \in PerFileErrors) => clean' = clean

C6_AbortsRun ==
    ~bOk => (clean = clean0 /\ \A d \in AllDates : fres[d] # "DataSourceError")

\* C6 (amended): when the boundary archive cannot be read, every dispatched
\* unit raises before its idempotency check, as that date's own failure: no
\* raw archive is enumerated or read and no checkpoint is written in the run.
C6_EveryUnitFails ==
    ~bOk =>
        /\ clean = clean0
        /\ \A d \in dates :
              /\ wpc[d] \in {"queued", "done"}
              /\ wpc[d] = "done" => fres[d] = "DataSourceError"
              /\ todo[d] = {} /\ output[d] = <<>>

C6_Witness ==
    /\ ~bOk
    /\ mainPc = "done"
    /\ Cardinality(dates) >= 2
    /\ \A d \in dates : fres[d] = "DataSourceError"

\* The zonal result of region i of the boundary collection for archive f.
ValueIn(f, i) == RegionResult(f.raster, gdf[i].geometry)
KeyOf(i) == <<gdf[i].FIPS, gdf[i].GEOID>>

\* Region i has a value for the variable of fa and none for that of fb, two
\* archives of the date d whose DateRecord is written.
ValueAndMissing(d, fa, fb, i) ==
    /\ clean[d].st = "complete"
    /\ fa \in raw_match(d) /\ fb \in raw_match(d)
    /\ VarOf(fa.name) # VarOf(fb.name)
    /\ i \in 1..Len(gdf)
    /\ ValueIn(fa, i) # NaN /\ ValueIn(fb, i) = NaN

C10_UnitsIndependentByName ==
    \A d \in dates :
        /\ fres[d] = "skipped" => Exists(d)
        /\ \A f \in todo[d] : DateOf(f.name) = d

\* ---- zonal_average on its own
Regions == zin.regions
Uniform(geom) ==
    /\ geom.kind = "poly" /\ geom.cover # {}
    /\ \A p, q \in geom.cover : zin.raster.data[p] = zin.raster.data[q]
ValueUnder(geom) == zin.raster.data[CHOOSE p \in geom.cover : TRUE]

\* C7: with no declared no-data value, a region whose covered pixels all
\* equal v gets exactly v, whatever the shape of its polygon.
C7_UniformGivesV ==
    (zout.done /\ zin.raster.nodata = None) =>
        \A i \in 1..Len(Regions) :
            Uniform(Regions[i].geometry) =>
                zout.gdf_out[i].value = Frac(ValueUnder(Regions[i].geometry), 1)

Bad(geom) == geom.kind \in {"null", "empty"} \/ MaskRaises(geom)

\* C8: zonal_average returns one result per region, in input order; a region
\* with null or empty geometry or a failing mask gets `missing`, and the
\* other regions get what they get without that region in the collection.
C8_OneResultPerRegion ==
    zout.done =>
        /\ Len(zout.gdf_out) = Len(Regions)
        /\ \A i \in 1..Len(Regions) :
              /\ zout.gdf_out[i].FIPS = Regions[i].FIPS
              /\ zout.gdf_out[i].GEOID = Regions[i].GEOID
              /\ Bad(Regions[i].geometry) =>
                    /\ zout.gdf_out[i].value = NaN
                    /\ Without(zout.gdf_out, i)
                         = zonal_average(zin.raster, Without(Regions, i))

C8_Witness ==
    /\ zout.done
    /\ \E i, j \in 1..Len(Regions) :
          /\ Regions[i].geometry.kind = "poly" /\ MaskRaises(Regions[i].geometry)
          /\ zout.gdf_out[i].value = NaN
          /\ zout.gdf_out[j].value # NaN

====
